---- MODULE Spec2Model ----
(***************************************************************************)
(* Model of examples/list_environments_demo.py: the MySQLMCPClient JSON-RPC *)
(* client (request-id counter, one synchronous HTTP POST per operation,     *)
(* response interpretation) and its four environment query operations.      *)
(* The MCP server the client talks to is not part of the source file; its   *)
(* listing contract is modelled from the specification (sections 3, 4.2, 6).*)
(***************************************************************************)
EXTENDS Integers, Sequences, FiniteSets, TLC

\* ---------------------------------------------------------------- bounds
MaxCalls == 2       \* operations invoked on the one client
MaxEnvs == 2        \* descriptors in the server's configuration

\* ------------------------------------------------------------- data model
EnvNames == {"prod", "uat"}
QueryNames == EnvNames \cup {"missing"}
Statuses == {"enabled", "disabled"}
Descriptors == [name : EnvNames, status : Statuses]
\* 302 stands for a redirection status that requests hands back as the final
\* response (no Location header to follow)
StatusCodes == {200, 302, 500}

\* Python's None; every JSON value the client handles is modelled as a record
None == [py |-> "None"]
ErrorPayload == [message |-> "boom"]
\* a result object that is not an Environment Listing (no "environments" key)
WrappedResult == [content |-> "text"]

RECURSIVE SeqsUpTo(_, _)
SeqsUpTo(S, n) ==
    IF n = 0 THEN {<<>>}
    ELSE LET shorter == SeqsUpTo(S, n - 1)
         IN shorter \cup {Append(s, x) : s \in {t \in shorter : Len(t) = n - 1}, x \in S}

ServerConfigs == SeqsUpTo(Descriptors, MaxEnvs)

\* ------------------------------------------------------ server (contract)
RECURSIVE EnabledOnly(_)
EnabledOnly(envs) ==
    IF envs = <<>> THEN <<>>
    ELSE IF Head(envs).status = "enabled"
         THEN <<Head(envs)>> \o EnabledOnly(Tail(envs))
         ELSE EnabledOnly(Tail(envs))

DefaultOf(envs) ==
    LET en == EnabledOnly(envs) IN IF en = <<>> THEN "" ELSE Head(en).name

ServerListing(envs, include_disabled) ==
    LET shown == IF include_disabled THEN envs ELSE EnabledOnly(envs)
    IN [environments |-> shown,
        total_count |-> Len(shown),
        default_environment |-> DefaultOf(envs)]

\* a JSON object with an "error" key, a "result" key, both or neither
Envelope(has_error, has_result, err, res) ==
    [k \in (IF has_error THEN {"error"} ELSE {}) \cup
           (IF has_result THEN {"result"} ELSE {})
        |-> IF k = "error" THEN err ELSE res]

\* ------------------------------------------------- outcomes of Python code
Return(v) == [kind |-> "return", exc |-> "", value |-> v]
Raise(e, v) == [kind |-> "raise", exc |-> e, value |-> v]
NoOutcome == [kind |-> "none", exc |-> "", value |-> None]

NoResponse == [conn |-> "none", status |-> 0, wellformed |-> FALSE,
               body |-> None, id |-> 0]
NoRequest == [jsonrpc |-> "2.0", id |-> 0, method |-> "",
              params |-> [name |-> "", arguments |-> [include_disabled |-> FALSE]]]
NoOp == [name |-> "", given |-> FALSE, include_disabled |-> FALSE, env_name |-> ""]

\* ------------------------------------------------------------ client code
\* __make_request, lines 21-26: the request envelope
Payload(id, method, params) ==
    [jsonrpc |-> "2.0", id |-> id, method |-> method, params |-> params]

\* call_tool, lines 38-41
ToolParams(tool_name, arguments) == [name |-> tool_name, arguments |-> arguments]

\* list_environments, lines 52-54: the arguments of the tool call
ListArguments(include_disabled) == [include_disabled |-> include_disabled]

\* mutant: get_environment_info calls list_environments() with the default
IncludeDisabledInfoDefault(o) ==
    CASE o.name = "list_environments" -> IF o.given THEN o.include_disabled ELSE FALSE
      [] o.name = "get_environment_names" -> IF o.given THEN o.include_disabled ELSE FALSE
      [] o.name = "get_default_environment" -> FALSE
      [] o.name = "get_environment_info" -> FALSE

\* the include_disabled each operation passes to list_environments
\* (default parameter False at lines 50 and 56; lines 58, 63, 68)
IncludeDisabledOf(o) ==
    CASE o.name = "list_environments" -> IF o.given THEN o.include_disabled ELSE FALSE
      [] o.name = "get_environment_names" -> IF o.given THEN o.include_disabled ELSE FALSE
      [] o.name = "get_default_environment" -> FALSE
      [] o.name = "get_environment_info" -> TRUE

\* mutant: the incremented id is used but not stored back
NextIdNotStored(id) == 1

\* self.request_id += 1, line 19
NextId(id) == id + 1

\* mutant: raise_for_status() left out
_make_request_unchecked(resp) ==
    IF resp.conn = "refused" THEN Raise("ConnectionError", None)
    ELSE IF ~resp.wellformed THEN Raise("JSONDecodeError", None)
    ELSE Return(resp.body)

\* mutant: the body is parsed first and the status looked at only when
\* parsing fails
_make_request_json_first(resp) ==
    IF resp.conn = "refused" THEN Raise("ConnectionError", None)
    ELSE IF resp.wellformed THEN Return(resp.body)
    ELSE IF resp.status >= 400 /\ resp.status < 600 THEN Raise("HTTPError", None)
    ELSE Raise("JSONDecodeError", None)

\* requests.post / raise_for_status / response.json, lines 28-34: ConnectionError
\* from post, HTTPError from raise_for_status (which requests raises for the
\* statuses 400-599 only), a JSON decode error from response.json()
_make_request(resp) ==
    IF resp.conn = "refused" THEN Raise("ConnectionError", None)
    ELSE IF resp.status >= 400 /\ resp.status < 600 THEN Raise("HTTPError", None)
    ELSE IF ~resp.wellformed THEN Raise("JSONDecodeError", None)
    ELSE Return(resp.body)

\* mutant: a result field is returned before the error field is looked at
call_tool_result_first(resp) ==
    LET r == _make_request(resp)
    IN IF r.kind = "raise" THEN r
       ELSE IF "result" \in DOMAIN r.value THEN Return(r.value["result"])
       ELSE IF "error" \in DOMAIN r.value THEN Raise("Exception", r.value["error"])
       ELSE Return(None)

\* call_tool, lines 43-48
call_tool(resp) ==
    LET r == _make_request(resp)
    IN IF r.kind = "raise" THEN r
       ELSE IF "error" \in DOMAIN r.value THEN Raise("Exception", r.value["error"])
       ELSE IF "result" \in DOMAIN r.value THEN Return(r.value["result"])
       ELSE Return(None)

\* list_environments, lines 50-54
list_environments(resp) == call_tool(resp)

\* result["key"] on the value call_tool returned: None is not subscriptable,
\* a dict without the key raises KeyError
Subscript(result, key) ==
    IF result = None THEN Raise("TypeError", None)
    ELSE IF key \notin DOMAIN result THEN Raise("KeyError", None)
    ELSE Return(result[key])

\* mutant: a name already collected is not collected again
RECURSIVE NamesOfUnique(_)
NamesOfUnique(envs) ==
    IF envs = <<>> THEN <<>>
    ELSE LET rest == NamesOfUnique(Tail(envs))
         IN IF \E i \in 1..Len(rest) : rest[i] = Head(envs).name
            THEN rest ELSE <<Head(envs).name>> \o rest

\* mutant: the names are collected in reverse order
RECURSIVE NamesOfReversed(_)
NamesOfReversed(envs) ==
    IF envs = <<>> THEN <<>>
    ELSE NamesOfReversed(Tail(envs)) \o <<Head(envs).name>>

\* [env["name"] for env in environments], line 59
RECURSIVE NamesOf(_)
NamesOf(envs) ==
    IF envs = <<>> THEN <<>> ELSE <<Head(envs).name>> \o NamesOf(Tail(envs))

\* get_environment_names, lines 56-59
get_environment_names(resp) ==
    LET r == list_environments(resp)
    IN IF r.kind = "raise" THEN r
       ELSE LET envs == Subscript(r.value, "environments")
            IN IF envs.kind = "raise" THEN envs ELSE Return(NamesOf(envs.value))

\* get_default_environment, lines 61-64
get_default_environment(resp) ==
    LET r == list_environments(resp)
    IN IF r.kind = "raise" THEN r ELSE Subscript(r.value, "default_environment")

\* mutant: the loop returns its first descriptor without comparing names
ScanFirst(envs, env_name) ==
    IF envs = <<>> THEN Raise("ValueError", [name |-> env_name])
    ELSE Return(Head(envs))

\* mutant: the loop keeps the last match instead of returning the first
RECURSIVE ScanLast(_, _)
ScanLast(envs, env_name) ==
    IF envs = <<>> THEN Raise("ValueError", [name |-> env_name])
    ELSE LET later == ScanLast(Tail(envs), env_name)
         IN IF later.kind = "return" THEN later
            ELSE IF Head(envs).name = env_name THEN Return(Head(envs))
            ELSE later

\* the for loop of get_environment_info, lines 70-74
RECURSIVE Scan(_, _)
Scan(envs, env_name) ==
    IF envs = <<>> THEN Raise("ValueError", [name |-> env_name])
    ELSE IF Head(envs).name = env_name THEN Return(Head(envs))
    ELSE Scan(Tail(envs), env_name)

\* get_environment_info, lines 66-74
get_environment_info(resp, env_name) ==
    LET r == list_environments(resp)
    IN IF r.kind = "raise" THEN r
       ELSE LET envs == Subscript(r.value, "environments")
            IN IF envs.kind = "raise" THEN envs ELSE Scan(envs.value, env_name)

\* what the running operation makes of the HTTP response
Finish(o, resp) ==
    CASE o.name = "list_environments" -> list_environments(resp)
      [] o.name = "get_environment_names" -> get_environment_names(resp)
      [] o.name = "get_default_environment" -> get_default_environment(resp)
      [] o.name = "get_environment_info" -> get_environment_info(resp, o.env_name)

\* ------------------------------------------------------------------ state
VARIABLES
    request_id,   \* self.request_id
    pc,           \* "idle" | "waiting" (blocked in requests.post) | "received"
    op,           \* the operation in progress or last finished
    started,      \* number of operations invoked
    raised,       \* number of operations that ended by raising
    request,      \* the request envelope of the current operation
    sent,         \* ids of the request envelopes posted, in order
    inflight,     \* requests posted and not yet answered
    response,     \* the HTTP exchange's result for the current request
    outcome,      \* what the operation returned or raised
    serverEnvs,   \* the server's configured environments
    seen          \* the latest earlier full-listing measurement: a total_count
                  \* or a names length, stale once the server was reconfigured

vars == <<request_id, pc, op, started, raised, request, sent, inflight, response,
          outcome, serverEnvs, seen>>

NotSeen == [what |-> "none", n |-> 0, stale |-> FALSE]

\* what a finished operation measured of the full listing, if anything
Measured(o, req, out) ==
    IF out.kind = "return" /\ req.params.arguments.include_disabled
    THEN IF o.name = "get_environment_names"
         THEN [what |-> "names", n |-> Len(out.value), stale |-> FALSE]
         ELSE IF o.name = "list_environments" /\ "total_count" \in DOMAIN out.value
         THEN [what |-> "total_count", n |-> out.value.total_count, stale |-> FALSE]
         ELSE NotSeen
    ELSE NotSeen

Init ==
    /\ request_id = 0
    /\ pc = "idle"
    /\ op = NoOp
    /\ started = 0
    /\ raised = 0
    /\ request = NoRequest
    /\ sent = <<>>
    /\ inflight = {}
    /\ response = NoResponse
    /\ outcome = NoOutcome
    /\ serverEnvs \in ServerConfigs
    /\ seen = NotSeen

\* An operation is called: it reaches __make_request (lines 19-32), which
\* increments the counter, builds the envelope and posts it, then blocks.
Invoke(o) ==
    /\ pc = "idle"
    /\ started < MaxCalls
    /\ LET id == NextId(request_id)
           p == Payload(id, "tools/call",
                        ToolParams("list_environments",
                                   ListArguments(IncludeDisabledOf(o))))
       IN /\ request_id' = id
          /\ request' = p
          /\ sent' = Append(sent, p.id)
          /\ inflight' = inflight \cup {p.id}
    /\ op' = o
    /\ started' = started + 1
    /\ pc' = "waiting"
    /\ response' = NoResponse
    /\ outcome' = NoOutcome
    /\ seen' = IF Measured(op, request, outcome).what # "none"
               THEN Measured(op, request, outcome) ELSE seen
    /\ UNCHANGED <<raised, serverEnvs>>

CallListEnvironments ==
    \E g \in BOOLEAN, v \in BOOLEAN :
        /\ (~g => ~v)
        /\ Invoke([name |-> "list_environments", given |-> g,
                   include_disabled |-> v, env_name |-> ""])

CallGetEnvironmentNames ==
    \E g \in BOOLEAN, v \in BOOLEAN :
        /\ (~g => ~v)
        /\ Invoke([name |-> "get_environment_names", given |-> g,
                   include_disabled |-> v, env_name |-> ""])

CallGetDefaultEnvironment ==
    Invoke([name |-> "get_default_environment", given |-> FALSE,
            include_disabled |-> FALSE, env_name |-> ""])

CallGetEnvironmentInfo ==
    \E n \in QueryNames :
        Invoke([name |-> "get_environment_info", given |-> FALSE,
                include_disabled |-> FALSE, env_name |-> n])

\* the HTTP exchange ends and requests.post stops blocking
Deliver(resp) ==
    /\ pc = "waiting"
    /\ request.id \in inflight
    /\ inflight' = inflight \ {request.id}
    /\ response' = resp
    /\ pc' = "received"
    /\ UNCHANGED <<request_id, op, started, raised, request, sent, outcome,
                   serverEnvs, seen>>

\* requests.post raises ConnectionError: the server is unreachable
ConnectionRefused ==
    Deliver([conn |-> "refused", status |-> 0, wellformed |-> FALSE,
             body |-> None, id |-> request.id])

\* the server answers as its contract says: a listing, or a JSON-RPC error
ServerRespond ==
    \E is_error \in BOOLEAN :
        Deliver([conn |-> "ok", status |-> 200, wellformed |-> TRUE,
                 body |-> Envelope(is_error, ~is_error, ErrorPayload,
                                   ServerListing(serverEnvs,
                                       request.params.arguments.include_disabled)),
                 id |-> request.id])

\* any other HTTP response the client may be handed: a non-success status,
\* a body that is not JSON, an envelope with both fields or neither, a result
\* that is not a listing
OtherResponse ==
    \E st \in StatusCodes, wf \in BOOLEAN, he \in BOOLEAN, hr \in BOOLEAN,
       res \in {WrappedResult,
                ServerListing(serverEnvs, request.params.arguments.include_disabled)} :
        /\ (~wf => ~he /\ ~hr)
        /\ (~hr \/ he => res # WrappedResult)
        /\ Deliver([conn |-> "ok", status |-> st, wellformed |-> wf,
                    body |-> IF wf THEN Envelope(he, hr, ErrorPayload, res) ELSE None,
                    id |-> request.id])

\* mutant: a request that found the server unreachable is posted again
CompleteRetrying ==
    /\ pc = "received"
    /\ IF Finish(op, response).exc = "ConnectionError"
       THEN /\ sent' = Append(sent, request.id)
            /\ inflight' = {request.id}
            /\ pc' = "waiting"
            /\ UNCHANGED <<outcome, raised>>
       ELSE /\ outcome' = Finish(op, response)
            /\ raised' = IF outcome'.kind = "raise" THEN raised + 1 ELSE raised
            /\ pc' = "idle"
            /\ UNCHANGED <<sent, inflight>>
    /\ UNCHANGED <<request_id, op, started, request, response, serverEnvs, seen>>

\* the operation runs to its end on the response: returns or raises
Complete ==
    /\ pc = "received"
    /\ outcome' = Finish(op, response)
    /\ raised' = IF outcome'.kind = "raise" THEN raised + 1 ELSE raised
    /\ pc' = "idle"
    /\ UNCHANGED <<request_id, op, started, request, sent, inflight, response,
                   serverEnvs, seen>>

\* The server is restarted with another configuration. The client sees the
\* server only through the response, so a change at any moment between two
\* responses is the same to it as a change while the next request is on its way.
Reconfigure ==
    /\ pc = "waiting"
    /\ \E c \in ServerConfigs : c # serverEnvs /\ serverEnvs' = c
    /\ seen' = IF seen.what = "none" THEN seen ELSE [seen EXCEPT !.stale = TRUE]
    /\ UNCHANGED <<request_id, pc, op, started, raised, request, sent, inflight,
                   response, outcome>>

Next ==
    \/ CallListEnvironments
    \/ CallGetEnvironmentNames
    \/ CallGetDefaultEnvironment
    \/ CallGetEnvironmentInfo
    \/ ConnectionRefused
    \/ ServerRespond
    \/ OtherResponse
    \/ Complete
    \/ Reconfigure

Spec == Init /\ [][Next]_vars

\* ----------------------------------------------------------- properties
\* an operation has finished and its response and outcome are at hand
Finished == pc = "idle" /\ outcome.kind # "none"
WireArg == request.params.arguments.include_disabled
SuccessStatus == response.conn = "ok" /\ response.status >= 200 /\ response.status <= 299
ErrorStatus == response.conn = "ok" /\ response.status >= 400 /\ response.status <= 599
\* the body was parsed as a JSON object and handed to call_tool
Parsed == response.conn = "ok" /\ ~ErrorStatus /\ response.wellformed
HasError == Parsed /\ "error" \in DOMAIN response.body
HasResult == Parsed /\ "result" \in DOMAIN response.body
\* the response carries an Environment Listing and no error
HasListing ==
    /\ Parsed /\ ~HasError /\ HasResult
    /\ "environments" \in DOMAIN response.body["result"]
ListingEnvs == response.body["result"].environments
Present(envs, n) == \E i \in 1..Len(envs) : envs[i].name = n

\* C1: the id in the k-th request envelope posted by the client is k: the
\* first is 1, each is the previous plus 1, none is sent twice, whatever the
\* operations were and however they ended.
C1_IdsCountUp ==
    /\ \A k \in 1..Len(sent) : sent[k] = k
    /\ \A j, k \in 1..Len(sent) : j # k => sent[j] # sent[k]
    /\ (started > 0 => request.id = Len(sent) /\ request.id = request_id)

\* the second request went out with id 2 after a call that failed
C1_Witness == sent = <<1, 2>> /\ raised = 1 /\ pc = "waiting" /\ request.id = 2

\* C2: on a success status with a well-formed JSON body, an envelope with an
\* error field fails with the Protocol Error carrying the server's payload,
\* also when it has a result field too; without an error field call_tool
\* (list_environments passes its value through) returns the result unchanged.
C2_ErrorTakesPrecedence ==
    Finished /\ SuccessStatus /\ response.wellformed =>
        /\ "error" \in DOMAIN response.body =>
              outcome = Raise("Exception", response.body["error"])
        /\ ("error" \notin DOMAIN response.body /\ op.name = "list_environments") =>
              /\ outcome.kind = "return"
              /\ "result" \in DOMAIN response.body =>
                    outcome.value = response.body["result"]

\* an envelope with both fields made the call fail with the error payload
C2_Witness ==
    /\ Finished /\ SuccessStatus /\ response.wellformed
    /\ DOMAIN response.body = {"error", "result"}
    /\ outcome = Raise("Exception", ErrorPayload)

\* C3: against a listing got with include_disabled = true,
\* get_environment_info(name) returns a descriptor named as asked exactly
\* when the listing has one; otherwise (an empty listing too) it fails with
\* the Not Found Error naming the asked environment; it never returns a
\* descriptor of another name.
C3_InfoFoundIffPresent ==
    (Finished /\ op.name = "get_environment_info" /\ HasListing /\ WireArg) =>
        /\ Present(ListingEnvs, op.env_name) <=>
              (outcome.kind = "return" /\ outcome.value.name = op.env_name)
        /\ ~Present(ListingEnvs, op.env_name) =>
              outcome = Raise("ValueError", [name |-> op.env_name])
        /\ outcome.kind = "return" => outcome.value.name = op.env_name

\* the name was found behind a descriptor of another name
C3_Witness ==
    /\ Finished /\ op.name = "get_environment_info" /\ HasListing
    /\ Len(ListingEnvs) = 2 /\ ListingEnvs[1].name # op.env_name
    /\ outcome = Return(ListingEnvs[2])

\* C4: the include_disabled on the wire is fixed by the operation:
\* get_environment_info sends true, get_default_environment false,
\* list_environments and get_environment_names the caller's argument, false
\* when omitted; every request is a tools/call of list_environments.
C4_WireArgument ==
    started > 0 =>
        /\ request.method = "tools/call"
        /\ request.params.name = "list_environments"
        /\ op.name = "get_environment_info" => WireArg = TRUE
        /\ op.name = "get_default_environment" => WireArg = FALSE
        /\ op.name \in {"list_environments", "get_environment_names"} =>
              WireArg = (op.given /\ op.include_disabled)

\* a disabled environment, absent from the default listing, was found by name
C4_Witness ==
    /\ Finished /\ op.name = "get_environment_info"
    /\ outcome.kind = "return" /\ outcome.value.status = "disabled"
    /\ ~Present(ServerListing(serverEnvs, FALSE).environments, op.env_name)

\* C5: every operation posts exactly one request, on success and on every
\* failure; nothing is re-sent; the operation ends only after the response or
\* failure of that one request arrived; at most one request is outstanding.
C5_OneRequestPerCall ==
    /\ Len(sent) = started
    /\ Cardinality(inflight) <= 1
    /\ pc = "waiting" <=> inflight # {}
    /\ pc = "waiting" => inflight = {request.id} /\ outcome.kind = "none"
    /\ outcome.kind # "none" =>
          /\ pc = "idle"
          /\ response.conn # "none"
          /\ response.id = request.id

\* two operations failed, the last for an unreachable server, and two
\* requests went out in all
C5_Witness ==
    /\ Finished /\ started = 2 /\ raised = 2 /\ Len(sent) = 2
    /\ outcome = Raise("ConnectionError", None)

\* the cause of failure of a finished operation, none when there is none
Cause ==
    IF response.conn = "refused" THEN "unreachable"
    ELSE IF ErrorStatus THEN "status"
    ELSE IF ~response.wellformed THEN "malformed"
    ELSE IF HasError THEN "error"
    ELSE IF op.name = "list_environments" THEN "none"
    ELSE IF ~HasResult THEN "no result"
    ELSE IF op.name = "get_default_environment"
         THEN IF "default_environment" \in DOMAIN response.body["result"]
              THEN "none" ELSE "no field"
    ELSE IF ~HasListing THEN "no field"
    ELSE IF op.name = "get_environment_info" /\ ~Present(ListingEnvs, op.env_name)
         THEN "absent"
    ELSE "none"

FourKinds == {"ConnectionError", "HTTPError", "JSONDecodeError", "Exception", "ValueError"}

NowNames ==
    /\ Finished /\ op.name = "get_environment_names" /\ WireArg
    /\ outcome.kind = "return"
NowTotal ==
    /\ Finished /\ op.name = "list_environments" /\ WireArg
    /\ outcome.kind = "return" /\ "total_count" \in DOMAIN outcome.value

\* C7 as stated: the length of get_environment_names(True) always equals the
\* total_count of list_environments(True) got on the same client.
C7_LengthAlwaysTotalCount ==
    /\ (NowNames /\ seen.what = "total_count") => Len(outcome.value) = seen.n
    /\ (NowTotal /\ seen.what = "names") => outcome.value.total_count = seen.n

\* C7 amended: the two agree when the server's environments were not
\* changed between the two calls.
C7_LengthIsTotalCountOfSameListing ==
    /\ (NowNames /\ seen.what = "total_count" /\ ~seen.stale) =>
          Len(outcome.value) = seen.n
    /\ (NowTotal /\ seen.what = "names" /\ ~seen.stale) =>
          outcome.value.total_count = seen.n

\* both were got from one non-empty listing, the names after the listing
C7_Witness ==
    NowNames /\ seen.what = "total_count" /\ ~seen.stale /\ seen.n = 2

\* C8: with several descriptors of the asked name in the full listing,
\* get_environment_info returns the one at the lowest position, never a later
\* one, and the duplicates cause no error.
C8_FirstMatch ==
    (Finished /\ op.name = "get_environment_info" /\ HasListing /\ WireArg) =>
        \A i \in 1..Len(ListingEnvs) :
            (/\ ListingEnvs[i].name = op.env_name
             /\ \A j \in 1..(i - 1) : ListingEnvs[j].name # op.env_name)
            => outcome = Return(ListingEnvs[i])

\* two descriptors of the asked name that differ: the first was returned
C8_Witness ==
    /\ Finished /\ op.name = "get_environment_info" /\ HasListing
    /\ Len(ListingEnvs) = 2
    /\ ListingEnvs[1].name = op.env_name /\ ListingEnvs[2].name = op.env_name
    /\ ListingEnvs[1] # ListingEnvs[2]
    /\ outcome = Return(ListingEnvs[1])

\* C9: get_environment_names returns the name fields of the listing's
\* environments in the server's order, same length, nothing dropped,
\* de-duplicated or reordered, and from the response to this call's own
\* request: the listing the server has now, not an earlier one.
C9_NamesInOrderAndFresh ==
    (Finished /\ op.name = "get_environment_names" /\ HasListing) =>
        /\ outcome.kind = "return"
        /\ Len(outcome.value) = Len(ListingEnvs)
        /\ \A i \in 1..Len(ListingEnvs) : outcome.value[i] = ListingEnvs[i].name
        /\ response.id = request_id
        /\ ListingEnvs = ServerListing(serverEnvs, WireArg).environments

\* a second names call returned a repeated name twice, in a number that
\* differs from the first call's: the listing changed in between
C9_Witness ==
    /\ NowNames /\ HasListing /\ request_id = 2
    /\ seen.what = "names" /\ seen.stale /\ seen.n # Len(outcome.value)
    /\ outcome.value = <<"uat", "uat">>

\* C10 as stated: any non-success status fails with a Transport Failure, and
\* a Protocol Error is raised only on a success status.
C10_NonSuccessStatusFails ==
    Finished =>
        /\ (response.conn = "ok" /\ ~SuccessStatus) =>
              (outcome.kind = "raise" /\ outcome.exc \in {"HTTPError", "JSONDecodeError"})
        /\ outcome.exc = "Exception" => SuccessStatus

\* C10 amended: the status is checked before the body is read, and the
\* statuses 400-599 are the ones that fail: such a response is a Transport
\* Failure also when its body is an envelope with an error field, and a
\* Protocol Error is raised only when the status is outside 400-599.
C10_ErrorStatusFailsFirst ==
    Finished =>
        /\ ErrorStatus => outcome = Raise("HTTPError", None)
        /\ outcome.exc = "Exception" => (response.conn = "ok" /\ ~ErrorStatus)

\* status 500 with a well-formed error envelope: the Transport Failure
C10_Witness ==
    /\ Finished /\ response.status = 500 /\ response.wellformed
    /\ "error" \in DOMAIN response.body
    /\ outcome = Raise("HTTPError", None)

====
